---- MODULE Spec2Model ----
(***************************************************************************)
(* A model of InferRPC's bidirectional endpoint (class Peer, and its copy  *)
(* BiDirectional): the envelope protocol, the handler table and the        *)
(* routing of inbound frames, together with the parts of JavaScript and    *)
(* of the zod validators that the routing rests on (JSON.stringify,        *)
(* JSON.parse, the `in` operator on a plain object, safeParse).            *)
(***************************************************************************)
EXTENDS Integers, Sequences, FiniteSets, TLC

(***************************************************************************)
(* JavaScript values.  An object is the sequence of its own enumerable     *)
(* properties <<key, value>> in insertion order.                           *)
(***************************************************************************)
Undefined == [t |-> "undefined"]
Null == [t |-> "null"]
\* NaN, Infinity, -Infinity: typeof "number", no JSON rendering of their own
NonFinite == [t |-> "nonfinite"]
Num(n) == [t |-> "number", n |-> n]
Str(s) == [t |-> "string", s |-> s]
Obj(fields) == [t |-> "object", f |-> fields]
\* an array, the sequence of its elements
Arr(items) == [t |-> "array", items |-> items]

RECURSIVE HasKey(_, _)
HasKey(fields, k) ==
  IF fields = <<>> THEN FALSE
  ELSE IF Head(fields)[1] = k THEN TRUE ELSE HasKey(Tail(fields), k)

\* obj[k] on an object holding only own data properties: undefined when absent
RECURSIVE GetField(_, _)
GetField(fields, k) ==
  IF fields = <<>> THEN Undefined
  ELSE IF Head(fields)[1] = k THEN Head(fields)[2] ELSE GetField(Tail(fields), k)

\* obj[k] = v: overwrite in place when k is present, else append
RECURSIVE PutField(_, _, _)
PutField(fields, k, v) ==
  IF fields = <<>> THEN << <<k, v>> >>
  ELSE IF Head(fields)[1] = k THEN << <<k, v>> >> \o Tail(fields)
  ELSE <<Head(fields)>> \o PutField(Tail(fields), k, v)

\* typeof-like name zod reports as "received"
TypeName(v) == v.t

(***************************************************************************)
(* JSON texts are sequences of tokens.  A token that no JSON grammar rule  *)
(* accepts (the letters of "invalid") is a junk token.                     *)
(***************************************************************************)
Punct(c) == [t |-> "punct", c |-> c]
TNum(n) == [t |-> "num", n |-> n]
TStr(s) == [t |-> "str", s |-> s]
TLit(w) == [t |-> "lit", w |-> w]
TJunk(w) == [t |-> "junk", w |-> w]

\* JSON.stringify's SerializeJSONProperty: undefined has no rendering, a
\* non-finite number renders as null, an object renders the properties
\* whose value has a rendering.
RECURSIVE SerializeJSONProperty(_)
RECURSIVE SerializeJSONObject(_, _)
RECURSIVE SerializeJSONArray(_, _)
SerializeJSONProperty(v) ==
  CASE v.t = "undefined" -> [defined |-> FALSE, toks |-> <<>>]
    [] v.t = "null" -> [defined |-> TRUE, toks |-> <<TLit("null")>>]
    [] v.t = "nonfinite" -> [defined |-> TRUE, toks |-> <<TLit("null")>>]
    [] v.t = "number" -> [defined |-> TRUE, toks |-> <<TNum(v.n)>>]
    [] v.t = "string" -> [defined |-> TRUE, toks |-> <<TStr(v.s)>>]
    [] v.t = "object" ->
         [defined |-> TRUE,
          toks |-> <<Punct("{")>> \o SerializeJSONObject(v.f, TRUE) \o <<Punct("}")>>]
    [] v.t = "array" ->
         [defined |-> TRUE,
          toks |-> <<Punct("[")>> \o SerializeJSONArray(v.items, TRUE)
                   \o <<Punct("]")>>]

SerializeJSONObject(fields, first) ==
  IF fields = <<>> THEN <<>>
  ELSE LET r == SerializeJSONProperty(Head(fields)[2]) IN
       IF ~r.defined THEN SerializeJSONObject(Tail(fields), first)
       ELSE (IF first THEN <<>> ELSE <<Punct(",")>>)
            \o <<TStr(Head(fields)[1]), Punct(":")>> \o r.toks
            \o SerializeJSONObject(Tail(fields), FALSE)

\* the elements of an array; one without a rendering is written as null
SerializeJSONArray(items, first) ==
  IF items = <<>> THEN <<>>
  ELSE LET r == SerializeJSONProperty(Head(items)) IN
       (IF first THEN <<>> ELSE <<Punct(",")>>)
       \o (IF r.defined THEN r.toks ELSE <<TLit("null")>>)
       \o SerializeJSONArray(Tail(items), FALSE)

\* JSON.stringify(v) for an object v (always a text)
JSONstringify(v) == SerializeJSONProperty(v).toks

\* JSON.parse: recursive descent; [ok, val, rest].  ok = FALSE is the
\* SyntaxError JSON.parse throws.
ParseFail == [ok |-> FALSE, val |-> Undefined, rest |-> <<>>]

RECURSIVE ParseValue(_)
RECURSIVE ParseMembers(_, _)
RECURSIVE ParseElements(_, _)
ParseValue(toks) ==
  IF toks = <<>> THEN ParseFail
  ELSE LET h == Head(toks) IN
    CASE h.t = "num" -> [ok |-> TRUE, val |-> Num(h.n), rest |-> Tail(toks)]
      [] h.t = "str" -> [ok |-> TRUE, val |-> Str(h.s), rest |-> Tail(toks)]
      [] h.t = "lit" -> [ok |-> TRUE, val |-> Null, rest |-> Tail(toks)]
      [] h.t = "junk" -> ParseFail
      [] h.t = "punct" ->
           IF h.c = "[" THEN
             IF Len(toks) >= 2 /\ toks[2] = Punct("]")
               THEN [ok |-> TRUE, val |-> Arr(<<>>), rest |-> Tail(Tail(toks))]
               ELSE ParseElements(Tail(toks), <<>>)
           ELSE IF h.c # "{" THEN ParseFail
           ELSE IF Len(toks) >= 2 /\ toks[2] = Punct("}")
                THEN [ok |-> TRUE, val |-> Obj(<<>>), rest |-> Tail(Tail(toks))]
                ELSE ParseMembers(Tail(toks), <<>>)

\* after "{" or ",": key ":" value, then "," or "}"; a repeated key keeps
\* its last value
ParseMembers(toks, acc) ==
  IF Len(toks) < 3 \/ toks[1].t # "str" \/ toks[2] # Punct(":") THEN ParseFail
  ELSE LET r == ParseValue(Tail(Tail(toks))) IN
    IF ~r.ok \/ r.rest = <<>> THEN ParseFail
    ELSE LET acc2 == PutField(acc, toks[1].s, r.val) IN
      IF Head(r.rest) = Punct("}")
        THEN [ok |-> TRUE, val |-> Obj(acc2), rest |-> Tail(r.rest)]
      ELSE IF Head(r.rest) = Punct(",") THEN ParseMembers(Tail(r.rest), acc2)
      ELSE ParseFail

\* after "[" or ",": a value, then "," or "]"
ParseElements(toks, acc) ==
  LET r == ParseValue(toks) IN
  IF ~r.ok \/ r.rest = <<>> THEN ParseFail
  ELSE IF Head(r.rest) = Punct("]")
    THEN [ok |-> TRUE, val |-> Arr(Append(acc, r.val)), rest |-> Tail(r.rest)]
  ELSE IF Head(r.rest) = Punct(",")
    THEN ParseElements(Tail(r.rest), Append(acc, r.val))
  ELSE ParseFail

JSONparse(text) ==
  LET r == ParseValue(text) IN
  IF r.ok /\ r.rest = <<>> THEN r ELSE ParseFail

(***************************************************************************)
(* zod validators: z.number(), z.string(), z.any(), z.object(shape).       *)
(* safeParse never throws: it returns the accepted data or a ZodError with *)
(* the ordered issue list.                                                 *)
(***************************************************************************)
ZNumber == [z |-> "number"]
ZString == [z |-> "string"]
ZAny == [z |-> "any"]
ZObject(shape) == [z |-> "object", shape |-> shape]

Issue(expected, v, path) ==
  [code |-> "invalid_type", expected |-> expected, received |-> TypeName(v),
   path |-> path]

\* the issues of a value against a scalar validator
ScalarIssues(schema, v, path) ==
  CASE schema.z = "any" -> <<>>
    [] schema.z = "number" ->
         IF v.t = "number" THEN <<>> ELSE <<Issue("number", v, path)>>
    [] schema.z = "string" ->
         IF v.t = "string" THEN <<>> ELSE <<Issue("string", v, path)>>

\* z.object: every declared key is checked, in declaration order, and every
\* failure is reported (no early exit)
RECURSIVE ShapeIssues(_, _)
ShapeIssues(shape, fields) ==
  IF shape = <<>> THEN <<>>
  ELSE ScalarIssues(Head(shape)[2], GetField(fields, Head(shape)[1]),
                    <<Head(shape)[1]>>)
       \o ShapeIssues(Tail(shape), fields)

\* the accepted object: the declared keys, in declaration order
RECURSIVE ShapeData(_, _)
ShapeData(shape, fields) ==
  IF shape = <<>> THEN <<>>
  ELSE (IF HasKey(fields, Head(shape)[1])
          THEN << <<Head(shape)[1], GetField(fields, Head(shape)[1])>> >>
          ELSE <<>>)
       \o ShapeData(Tail(shape), fields)

ZodIssues(schema, v) ==
  IF schema.z = "object"
    THEN IF v.t = "object" THEN ShapeIssues(schema.shape, v.f)
         ELSE <<Issue("object", v, <<>>)>>
    ELSE ScalarIssues(schema, v, <<>>)

SafeParse(schema, v) ==
  LET issues == ZodIssues(schema, v) IN
  IF issues = <<>>
    THEN [success |-> TRUE,
          data |-> IF schema.z = "object" THEN Obj(ShapeData(schema.shape, v.f))
                   ELSE v]
    ELSE [success |-> FALSE, error |-> [issues |-> issues, name |-> "ZodError"]]

genericMsgSchema == ZObject(<< <<"type", ZString>>, <<"params", ZAny>> >>)

(***************************************************************************)
(* The endpoints of the tests: peer1 receives schema1 and sends schema2,   *)
(* peer2 receives schema2 and sends schema1.  peer3 is an endpoint whose   *)
(* schema (any Record<string, ZodType>) names a message type "toString";   *)
(* it talks to an endpoint with the same schema.                           *)
(***************************************************************************)
Peers == {"peer1", "peer2", "peer3"}
Other(peer) ==
  CASE peer = "peer1" -> "peer2" [] peer = "peer2" -> "peer1"
    [] OTHER -> "peer3"

schema1 ==
  << <<"divide", ZObject(<< <<"num1", ZNumber>>, <<"num2", ZNumber>> >>)>>,
     <<"sayHi", ZObject(<< <<"name", ZString>> >>)>> >>

schema2 == << <<"divideResult", ZNumber>>, <<"sayHiResult", ZString>> >>

schema3 == << <<"toString", ZString>> >>

incomingSchema(peer) ==
  CASE peer = "peer1" -> schema1 [] peer = "peer2" -> schema2
    [] OTHER -> schema3
outgoingSchema(peer) == incomingSchema(Other(peer))

RECURSIVE KeysOf(_)
KeysOf(fields) ==
  IF fields = <<>> THEN {} ELSE {Head(fields)[1]} \cup KeysOf(Tail(fields))

\* the members every plain object ({} or an object literal) inherits from
\* Object.prototype: `k in obj` is true and obj[k] is defined for each
ObjectPrototypeKeys ==
  {"constructor", "hasOwnProperty", "isPrototypeOf", "propertyIsEnumerable",
   "toLocaleString", "toString", "valueOf", "__proto__"}

\* the message-type strings of the model
TypeNames ==
  KeysOf(schema1) \cup KeysOf(schema2) \cup {"toString", "bogus"}

(***************************************************************************)
(* Handlers.  A handler is a closure the application registers; the model  *)
(* knows five of them by what they do when invoked.                        *)
(*   hOk     async; suspends, its promise resolves later                   *)
(*   hFail   async; suspends, its promise rejects later                    *)
(*   hThrow  not async; throws before returning a promise                  *)
(*   hReply  async; before its first suspension point it passes            *)
(*           serialize(type + "Result", result) to the other endpoint      *)
(*   hNest   async; before its first suspension point it passes a sayHi    *)
(*           frame to onMessage of its own endpoint                        *)
(***************************************************************************)
HandlerIds == {"hOk", "hFail", "hThrow", "hReply", "hNest"}

\* the registrations the model makes
Registrable(peer, type) ==
  CASE peer = "peer1" /\ type = "divide" -> {"hReply", "hNest"}
    [] peer = "peer1" /\ type = "sayHi" -> {"hOk", "hFail"}
    [] peer = "peer2" /\ type = "divideResult" -> {"hOk", "hThrow"}
    [] peer = "peer1" /\ type = "bogus" -> {"hOk"}
    [] OTHER -> {}

VARIABLES
  handlers,   \* handlers[peer][type]: the registered handler, "none" if the
              \* table has no own property `type`
  pending,    \* dispatched handler promises not yet settled, by outcome
  latest,     \* history: the handler of the most recent setHandler(peer, type)
  lastOp,     \* the most recent operation and everything it did
  routes,     \* the router: routes[method] is <<style, fn>> of the handler
              \* behind POST method, <<"none", "none">> when there is no route
  lastCall,   \* the most recent router or client operation and what it did
  biHandlers, \* the handler tables of the BiDirectional endpoints
  biPending,  \* the pending handler promises of the BiDirectional endpoints
  biLastOp    \* the most recent operation made on a Peer and a BiDirectional
              \* side by side, and what each did

vars == <<handlers, pending, latest, lastOp, routes, lastCall,
          biHandlers, biPending, biLastOp>>

\* this.handlers = {} (constructor)
NoHandlers == [type \in TypeNames |-> "none"]

(***************************************************************************)
(* Peer.onMessage, step by step.  Every step yields the events it causes   *)
(* (listener calls, handler invocations, the exception it lets escape) and *)
(* whether routing stops there.  d is the nesting depth of the onMessage   *)
(* call: 0 for a call from the host loop, d + 1 for a call made by a       *)
(* handler that a call of depth d invoked.                                 *)
(***************************************************************************)
Ev(e, peer, d, a) == [e |-> e, peer |-> peer, d |-> d, a |-> a]

SyntaxError == [issues |-> <<>>, name |-> "SyntaxError"]

\* ParseStep without the return in the catch block: routing goes on with
\* msgJson undefined
ParseStepNoReturn(peer, msg, d) ==
  LET pr == JSONparse(msg) IN
  IF pr.ok
    THEN [stop |-> FALSE, events |-> <<>>, msgJson |-> pr.val]
    ELSE [stop |-> FALSE,
          events |-> <<Ev("onParseError", peer, d, SyntaxError)>>,
          msgJson |-> Undefined]

\* try { msgJson = JSON.parse(msg) } catch (e) { onParseError(e); return }
ParseStep(peer, msg, d) ==
  LET pr == JSONparse(msg) IN
  IF pr.ok
    THEN [stop |-> FALSE, events |-> <<>>, msgJson |-> pr.val]
    ELSE [stop |-> TRUE,
          events |-> <<Ev("onParseError", peer, d, SyntaxError)>>,
          msgJson |-> Undefined]

\* ShapeStep that takes the whole envelope for the payload
ShapeStepEnvelope(peer, msgJson, d) ==
  LET parseResult == SafeParse(genericMsgSchema, msgJson) IN
  IF parseResult.success
    THEN [stop |-> FALSE, events |-> <<>>,
          type |-> GetField(parseResult.data.f, "type").s,
          params |-> msgJson]
    ELSE [stop |-> TRUE,
          events |-> <<Ev("onParseError", peer, d, parseResult.error)>>,
          type |-> "", params |-> Undefined]

\* ShapeStep that asks only for an object: a missing type, or one that is
\* no string, goes on to the handler lookup
ShapeStepAnyObject(peer, msgJson, d) ==
  IF msgJson.t = "object"
    THEN [stop |-> FALSE, events |-> <<>>,
          type |-> IF GetField(msgJson.f, "type").t = "string"
                     THEN GetField(msgJson.f, "type").s ELSE "undefined",
          params |-> GetField(msgJson.f, "params")]
    ELSE [stop |-> TRUE,
          events |-> <<Ev("onParseError", peer, d,
                          SafeParse(genericMsgSchema, msgJson).error)>>,
          type |-> "", params |-> Undefined]

\* genericMsgSchema.safeParse(msgJson); const { type, params } = data
ShapeStep(peer, msgJson, d) ==
  LET parseResult == SafeParse(genericMsgSchema, msgJson) IN
  IF parseResult.success
    THEN [stop |-> FALSE, events |-> <<>>,
          type |-> GetField(parseResult.data.f, "type").s,
          params |-> GetField(parseResult.data.f, "params")]
    ELSE [stop |-> TRUE,
          events |-> <<Ev("onParseError", peer, d, parseResult.error)>>,
          type |-> "", params |-> Undefined]

\* `type in this.handlers`: own properties and the inherited ones
InHandlers(tbl, type) ==
  \/ type \in TypeNames /\ tbl[type] # "none"
  \/ type \in ObjectPrototypeKeys

\* a lookup in one handler table that all endpoints share
LookupStepShared(peer, type, d) ==
  IF \E q \in Peers : InHandlers(handlers[q], type)
    THEN [stop |-> FALSE, events |-> <<>>]
    ELSE [stop |-> TRUE, events |-> <<Ev("onMissingHandler", peer, d, type)>>]

\* if (!(type in this.handlers)) { onMissingHandler(type); return }
LookupStep(peer, type, d) ==
  IF InHandlers(handlers[peer], type)
    THEN [stop |-> FALSE, events |-> <<>>]
    ELSE [stop |-> TRUE, events |-> <<Ev("onMissingHandler", peer, d, type)>>]

\* this.incomingSchema[type]: a validator, a member inherited from
\* Object.prototype, or undefined
SchemaMember(peer, type) ==
  IF HasKey(incomingSchema(peer), type)
    THEN [kind |-> "validator", v |-> GetField(incomingSchema(peer), type)]
  ELSE IF type \in ObjectPrototypeKeys THEN [kind |-> "inherited"]
  ELSE [kind |-> "undefined"]

\* ValidateStep without the else branch: an invalid payload is dropped
\* and nobody is told
ValidateStepSilent(peer, type, params, d) ==
  LET m == SchemaMember(peer, type) IN
  IF m.kind # "validator"
    THEN [stop |-> TRUE, threw |-> TRUE,
          events |-> <<Ev("throw", peer, d, "TypeError")>>, data |-> Undefined]
    ELSE LET parseResult2 == SafeParse(m.v, params) IN
      [stop |-> ~parseResult2.success, threw |-> FALSE, events |-> <<>>,
       data |-> IF parseResult2.success THEN parseResult2.data ELSE Undefined]

\* this.incomingSchema[type].safeParse(params): a TypeError when the member
\* is no validator; else onParseError(error) and return on failure
ValidateStep(peer, type, params, d) ==
  LET m == SchemaMember(peer, type) IN
  IF m.kind # "validator"
    THEN [stop |-> TRUE, threw |-> TRUE,
          events |-> <<Ev("throw", peer, d, "TypeError")>>, data |-> Undefined]
    ELSE LET parseResult2 == SafeParse(m.v, params) IN
      IF parseResult2.success
        THEN [stop |-> FALSE, threw |-> FALSE, events |-> <<>>,
              data |-> parseResult2.data]
        ELSE [stop |-> TRUE, threw |-> FALSE,
              events |-> <<Ev("onParseError", peer, d, parseResult2.error)>>,
              data |-> Undefined]

\* a serialize that stringifies the payload alone
serializeBare(type, params) == SerializeJSONProperty(params).toks

\* serialize(type, params): JSON.stringify({ type, params })
serialize(type, params) ==
  JSONstringify(Obj(<< <<"type", Str(type)>>, <<"params", params>> >>))

\* num1 / num2 on the numbers of the model (exact quotients); a zero
\* divisor gives a non-finite number
NumDiv(a, b) == IF b.n = 0 THEN NonFinite ELSE Num(a.n \div b.n)

\* the reply of the test's handlers: divideResult num1 / num2, sayHiResult
\* "Hi " + name
ReplyOf(type, data) ==
  IF type = "divide"
    THEN <<"divideResult",
           NumDiv(GetField(data.f, "num1"), GetField(data.f, "num2"))>>
    ELSE <<"sayHiResult", Str("Hi " \o GetField(data.f, "name").s)>>

\* the frame hNest hands to its own endpoint
NestedFrame == serialize("sayHi", Obj(<< <<"name", Str("Sarah")>> >>))

RECURSIVE OnMessage(_, _, _)
RECURSIVE InvokeHandler(_, _, _, _, _)

\* the call this.handlers[type](data): the events of the handler's
\* synchronous part, and the promise it returns (or "threw"; calling a
\* table entry that is no handler is a TypeError)
InvokeHandler(peer, type, h, data, d) ==
  CASE h = "none" ->
         [events |-> <<>>, outcome |-> "threw", ok |-> 0, fail |-> 0]
    [] h = "hOk" ->
         [events |-> <<>>, outcome |-> "pending-ok", ok |-> 0, fail |-> 0]
    [] h = "hFail" ->
         [events |-> <<>>, outcome |-> "pending-fail", ok |-> 0, fail |-> 0]
    [] h = "hThrow" ->
         [events |-> <<>>, outcome |-> "threw", ok |-> 0, fail |-> 0]
    [] h = "hReply" ->
         LET rp == ReplyOf(type, data)
             r == OnMessage(Other(peer), serialize(rp[1], rp[2]), d + 1)
         IN [events |-> r.events,
             outcome |-> IF r.threw THEN "rejected" ELSE "resolved",
             ok |-> r.ok, fail |-> r.fail]
    [] h = "hNest" ->
         LET r == OnMessage(peer, NestedFrame, d + 1)
         IN [events |-> r.events,
             outcome |-> IF r.threw THEN "rejected" ELSE "resolved",
             ok |-> r.ok, fail |-> r.fail]

\* a dispatch that leaves the invocation to a later job of the event loop
DispatchStepDeferred(peer, type, data, d) ==
  [events |-> <<Ev("deferred", peer, d, type)>>, threw |-> FALSE,
   ok |-> 1, fail |-> 0]

\* a dispatch that waits for the handlers dispatched earlier: while one is
\* pending the message is queued and no handler is invoked
DispatchStepAwaiting(peer, type, data, d) ==
  LET h == IF type \in TypeNames THEN handlers[peer][type] ELSE "none"
      inv == InvokeHandler(peer, type, h, data, d)
      call == <<Ev("invoke", peer, d, [type |-> type, h |-> h, data |-> data])>>
              \o inv.events
  IN IF pending.ok + pending.fail > 0
       THEN [events |-> <<Ev("queued", peer, d, type)>>,
             threw |-> FALSE, ok |-> 0, fail |-> 0]
     ELSE IF h = "none" \/ inv.outcome = "threw"
       THEN [events |-> <<Ev("throw", peer, d, "TypeError")>>,
             threw |-> TRUE, ok |-> 0, fail |-> 0]
       ELSE [events |-> call \o <<Ev("catch", peer, d, type)>>,
             threw |-> FALSE,
             ok |-> inv.ok + (IF inv.outcome = "pending-ok" THEN 1 ELSE 0),
             fail |-> inv.fail
                      + (IF inv.outcome \in {"pending-fail", "rejected"}
                           THEN 1 ELSE 0)]

\* this.handlers[type](data).catch(...): the handler is invoked inside the
\* call and its promise is not awaited; a handler that throws before
\* returning a promise lets the exception escape onMessage.  When the
\* table has no own entry, this.handlers[type] is the member inherited from
\* Object.prototype: calling it returns no promise and .catch is a TypeError
DispatchStep(peer, type, data, d) ==
  LET h == IF type \in TypeNames THEN handlers[peer][type] ELSE "none"
      inv == InvokeHandler(peer, type, h, data, d)
      call == <<Ev("invoke", peer, d, [type |-> type, h |-> h, data |-> data])>>
              \o inv.events
  IN IF h = "none"
       THEN [events |-> <<Ev("throw", peer, d, "TypeError")>>,
             threw |-> TRUE, ok |-> 0, fail |-> 0]
     ELSE IF inv.outcome = "threw"
       THEN [events |-> call \o <<Ev("throw", peer, d, "HandlerError")>>,
             threw |-> TRUE, ok |-> inv.ok, fail |-> inv.fail]
       ELSE [events |-> call \o <<Ev("catch", peer, d, type)>>,
             threw |-> FALSE,
             ok |-> inv.ok + (IF inv.outcome = "pending-ok" THEN 1 ELSE 0),
             fail |-> inv.fail
                      + (IF inv.outcome \in {"pending-fail", "rejected"}
                           THEN 1 ELSE 0)]

\* onMessage(msg): [events, threw, ok, fail]; ok and fail count the promises
\* it leaves pending, by their later outcome
OnMessage(peer, msg, d) ==
  LET s1 == ParseStep(peer, msg, d)
      s2 == ShapeStep(peer, s1.msgJson, d)
      s3 == LookupStep(peer, s2.type, d)
      s4 == ValidateStep(peer, s2.type, s2.params, d)
      s5 == DispatchStep(peer, s2.type, s4.data, d)
      run ==
        IF s1.stop
          THEN [events |-> s1.events, threw |-> FALSE, ok |-> 0, fail |-> 0]
        ELSE IF s2.stop
          THEN [events |-> s1.events \o s2.events, threw |-> FALSE,
                ok |-> 0, fail |-> 0]
        ELSE IF s3.stop
          THEN [events |-> s1.events \o s2.events \o s3.events,
                threw |-> FALSE, ok |-> 0, fail |-> 0]
        ELSE IF s4.stop
          THEN [events |-> s1.events \o s2.events \o s3.events \o s4.events,
                threw |-> s4.threw, ok |-> 0, fail |-> 0]
        ELSE [events |-> s1.events \o s2.events \o s3.events \o s4.events
                         \o s5.events,
              threw |-> s5.threw, ok |-> s5.ok, fail |-> s5.fail]
  IN [events |-> <<Ev("enter", peer, d, "")>> \o run.events
                 \o (IF run.threw THEN <<>> ELSE <<Ev("return", peer, d, "")>>),
      threw |-> run.threw, ok |-> run.ok, fail |-> run.fail]

\* a catch callback that reports the failure to the listener
CatchCallbackToListener(err) == <<Ev("onParseError", "", 0, err)>>

\* .catch((err) => { console.warn("Uncaught error in handler", err) })
CatchCallback(err) == <<Ev("console.warn", "", 0, err)>>

(***************************************************************************)
(* class BiDirectional, the second copy of the endpoint, step by step as   *)
(* its own onMessage, setHandler and serialize are written.  It works on   *)
(* its own handler tables.                                                 *)
(***************************************************************************)
\* const genericMsgSchema = z.object({ type: z.string(), params: z.any() })
biGenericMsgSchema == ZObject(<< <<"type", ZString>>, <<"params", ZAny>> >>)

\* try { msgJson = JSON.parse(msg) } catch (e) { onParseError(e); return }
BiParseStep(peer, msg, d) ==
  LET pr == JSONparse(msg) IN
  IF pr.ok
    THEN [stop |-> FALSE, events |-> <<>>, msgJson |-> pr.val]
    ELSE [stop |-> TRUE,
          events |-> <<Ev("onParseError", peer, d, SyntaxError)>>,
          msgJson |-> Undefined]

\* genericMsgSchema.safeParse(msgJson); const { type, params } = data
BiShapeStep(peer, msgJson, d) ==
  LET parseResult == SafeParse(biGenericMsgSchema, msgJson) IN
  IF parseResult.success
    THEN [stop |-> FALSE, events |-> <<>>,
          type |-> GetField(parseResult.data.f, "type").s,
          params |-> GetField(parseResult.data.f, "params")]
    ELSE [stop |-> TRUE,
          events |-> <<Ev("onParseError", peer, d, parseResult.error)>>,
          type |-> "", params |-> Undefined]

\* `type in this.handlers`: own properties and the inherited ones
BiInHandlers(tbl, type) ==
  \/ type \in TypeNames /\ tbl[type] # "none"
  \/ type \in ObjectPrototypeKeys

\* if (!(type in this.handlers)) { onMissingHandler(type); return }
BiLookupStep(peer, type, d) ==
  IF BiInHandlers(biHandlers[peer], type)
    THEN [stop |-> FALSE, events |-> <<>>]
    ELSE [stop |-> TRUE, events |-> <<Ev("onMissingHandler", peer, d, type)>>]

\* this.incomingSchema[type].safeParse(params): a TypeError when the member
\* is no validator; else onParseError(error) and return on failure
BiValidateStep(peer, type, params, d) ==
  LET m == SchemaMember(peer, type) IN
  IF m.kind # "validator"
    THEN [stop |-> TRUE, threw |-> TRUE,
          events |-> <<Ev("throw", peer, d, "TypeError")>>, data |-> Undefined]
    ELSE LET parseResult2 == SafeParse(m.v, params) IN
      IF parseResult2.success
        THEN [stop |-> FALSE, threw |-> FALSE, events |-> <<>>,
              data |-> parseResult2.data]
        ELSE [stop |-> TRUE, threw |-> FALSE,
              events |-> <<Ev("onParseError", peer, d, parseResult2.error)>>,
              data |-> Undefined]

\* serialize(type, params): JSON.stringify({ type, params })
biSerialize(type, params) ==
  JSONstringify(Obj(<< <<"type", Str(type)>>, <<"params", params>> >>))

\* the frame hNest hands to its own endpoint
BiNestedFrame == biSerialize("sayHi", Obj(<< <<"name", Str("Sarah")>> >>))

RECURSIVE BiOnMessage(_, _, _)
RECURSIVE BiInvokeHandler(_, _, _, _, _)

\* the call this.handlers[type](data): the events of the handler's
\* synchronous part, and the promise it returns (or "threw"; calling a
\* table entry that is no handler is a TypeError)
BiInvokeHandler(peer, type, h, data, d) ==
  CASE h = "none" ->
         [events |-> <<>>, outcome |-> "threw", ok |-> 0, fail |-> 0]
    [] h = "hOk" ->
         [events |-> <<>>, outcome |-> "pending-ok", ok |-> 0, fail |-> 0]
    [] h = "hFail" ->
         [events |-> <<>>, outcome |-> "pending-fail", ok |-> 0, fail |-> 0]
    [] h = "hThrow" ->
         [events |-> <<>>, outcome |-> "threw", ok |-> 0, fail |-> 0]
    [] h = "hReply" ->
         LET rp == ReplyOf(type, data)
             r == BiOnMessage(Other(peer), biSerialize(rp[1], rp[2]), d + 1)
         IN [events |-> r.events,
             outcome |-> IF r.threw THEN "rejected" ELSE "resolved",
             ok |-> r.ok, fail |-> r.fail]
    [] h = "hNest" ->
         LET r == BiOnMessage(peer, BiNestedFrame, d + 1)
         IN [events |-> r.events,
             outcome |-> IF r.threw THEN "rejected" ELSE "resolved",
             ok |-> r.ok, fail |-> r.fail]

\* what became of this.handlers[type](data).catch(...), given the entry h
\* and what calling it did: a handler that throws before returning a
\* promise lets the exception escape onMessage; else the promise is left
\* pending with the catch callback attached
BiDispatchOutcome(peer, type, h, data, d, inv) ==
  IF h = "none"
    THEN [events |-> <<Ev("throw", peer, d, "TypeError")>>,
          threw |-> TRUE, ok |-> 0, fail |-> 0]
  ELSE IF inv.outcome = "threw"
    THEN [events |-> <<Ev("invoke", peer, d,
                         [type |-> type, h |-> h, data |-> data])>>
                     \o inv.events
                     \o <<Ev("throw", peer, d, "HandlerError")>>,
          threw |-> TRUE, ok |-> inv.ok, fail |-> inv.fail]
    ELSE [events |-> <<Ev("invoke", peer, d,
                         [type |-> type, h |-> h, data |-> data])>>
                     \o inv.events
                     \o <<Ev("catch", peer, d, type)>>,
          threw |-> FALSE,
          ok |-> inv.ok + (IF inv.outcome = "pending-ok" THEN 1 ELSE 0),
          fail |-> inv.fail
                   + (IF inv.outcome \in {"pending-fail", "rejected"}
                        THEN 1 ELSE 0)]

\* this.handlers[type](data) on the entry h of the table
BiDispatchEntry(peer, type, h, data, d) ==
  BiDispatchOutcome(peer, type, h, data, d,
                    BiInvokeHandler(peer, type, h, data, d))

\* this.handlers[type](data).catch(...): the handler is invoked inside the
\* call and its promise is not awaited.  When the table has no own entry,
\* this.handlers[type] is the member inherited from Object.prototype:
\* calling it returns no promise and .catch is a TypeError
BiDispatchStep(peer, type, data, d) ==
  BiDispatchEntry(peer, type,
                  IF type \in TypeNames THEN biHandlers[peer][type]
                                        ELSE "none",
                  data, d)

\* an early return (or an exception) of onMessage: no promise is left
BiStopped(events, threw) ==
  [events |-> events, threw |-> threw, ok |-> 0, fail |-> 0]

\* lines 68-76, given the result s4 of the validation
BiFromValidate(peer, type, d, s4) ==
  IF s4.stop THEN BiStopped(s4.events, s4.threw)
             ELSE BiDispatchStep(peer, type, s4.data, d)

\* lines 63-76, given the result s3 of the lookup
BiFromLookup(peer, type, params, d, s3) ==
  IF s3.stop THEN BiStopped(s3.events, FALSE)
             ELSE BiFromValidate(peer, type, d,
                                 BiValidateStep(peer, type, params, d))

\* lines 56-76, given the result s2 of the envelope check
BiFromShape(peer, d, s2) ==
  IF s2.stop THEN BiStopped(s2.events, FALSE)
             ELSE BiFromLookup(peer, s2.type, s2.params, d,
                               BiLookupStep(peer, s2.type, d))

\* lines 48-76, given the result s1 of JSON.parse
BiFromParse(peer, d, s1) ==
  IF s1.stop THEN BiStopped(s1.events, FALSE)
             ELSE BiFromShape(peer, d, BiShapeStep(peer, s1.msgJson, d))

\* the call from its entry to its return, or to the exception that ends it
BiCallRecord(peer, d, run) ==
  [events |-> <<Ev("enter", peer, d, "")>> \o run.events
              \o (IF run.threw THEN <<>> ELSE <<Ev("return", peer, d, "")>>),
   threw |-> run.threw, ok |-> run.ok, fail |-> run.fail]

\* onMessage(msg): [events, threw, ok, fail]; ok and fail count the promises
\* it leaves pending, by their later outcome
BiOnMessage(peer, msg, d) ==
  BiCallRecord(peer, d, BiFromParse(peer, d, BiParseStep(peer, msg, d)))

\* .catch((err) => { console.warn("Uncaught error in handler", err) })
BiCatchCallback(err) == <<Ev("console.warn", "", 0, err)>>

\* setHandler(msgType, handler): this.handlers[msgType] = handler
BiSetHandlerTable(tbl, type, h) == [tbl EXCEPT ![type] = h]

(***************************************************************************)
(* The frames and payloads of the model.                                   *)
(***************************************************************************)
DivOk == Obj(<< <<"num1", Num(10)>>, <<"num2", Num(5)>> >>)
DivSwapped == Obj(<< <<"num2", Num(5)>>, <<"num1", Num(10)>> >>)
DivBad == Obj(<< <<"num1", Num(10)>>, <<"num2", Str("5")>> >>)
SayHiOk == Obj(<< <<"name", Str("Sarah")>> >>)

\* <<type, params>> handed to serialize; Undefined is the omitted argument
Envelopes ==
  { <<"divide", DivOk>>, <<"divide", DivSwapped>>, <<"divide", Obj(<<>>)>>,
    <<"divide", DivBad>>, <<"divide", Undefined>>,
    <<"sayHi", SayHiOk>>, <<"sayHi", Num(2)>>,
    <<"divideResult", Num(2)>>, <<"divideResult", NonFinite>>,
    <<"divideResult", Str("Hi Sarah")>>, <<"sayHiResult", Str("Hi Sarah")>>,
    <<"toString", Num(2)>>, <<"toString", Str("Hi Sarah")>>,
    <<"bogus", Num(2)>> }

\* texts no serialize call produced: not JSON ("invalid", a cut-off frame)
\* and JSON that is no envelope (5, no type, a type that is no string)
RawTexts ==
  { <<TJunk("invalid")>>,
    <<Punct("{"), TStr("type"), Punct(":"), TStr("divide")>>,
    <<TNum(5)>>,
    <<Punct("{"), TStr("params"), Punct(":"), Punct("{"), Punct("}"), Punct("}")>>,
    <<Punct("{"), TStr("type"), Punct(":"), TNum(5), Punct(","),
      TStr("params"), Punct(":"), Punct("{"), Punct("}"), Punct("}")>> }

(***************************************************************************)
(* Request/response over HTTP.  A schema maps a method name to its request *)
(* and response validators, here <<method, req, res>>.  ping is a method   *)
(* of an AbstractSchemaType that answers nothing.                          *)
(***************************************************************************)
ZVoid == [z |-> "void"]

testSchema ==
  << <<"sayHi", ZObject(<< <<"name", ZString>> >>), ZString>>,
     <<"divide", ZObject(<< <<"num1", ZNumber>>, <<"num2", ZNumber>> >>),
       ZNumber>> >>

apiSchema == testSchema \o << <<"ping", ZObject(<<>>), ZVoid>> >>

MethodNames == KeysOf(apiSchema)

\* a string holding a JSON text, by its tokens
Text(toks) == [t |-> "text", toks |-> toks]

\* the characters of a string as a body text: those of a message are not
\* JSON, one junk token
BodyText(b) == IF b.t = "string" THEN <<TJunk(b.s)>> ELSE b.toks

\* new ApiHttpError(message, code), and any other Error
ApiHttpError(message, code) ==
  [code |-> code, name |-> "ApiHttpError", message |-> message]
OtherError == [code |-> 0, name |-> "Error", message |-> "boom"]
NoError == [code |-> 0, name |-> "none", message |-> ""]

\* the status code an always-failing handler "deny<c>" declares
DeclaredCode(fn) ==
  CASE fn = "deny200" -> 200 [] fn = "deny204" -> 204
    [] fn = "deny404" -> 404 [] fn = "deny99" -> 99

\* The handler bodies.  divide and sayHi are the test's; divideUnchecked
\* divides without looking at num2; ping returns nothing; crash throws an
\* Error; deny<c> throws new ApiHttpError("denied", c).
RunHandler(fn, req) ==
  CASE fn = "divide" ->
         IF GetField(req.f, "num2") = Num(0)
           THEN [kind |-> "threw", value |-> Undefined,
                 error |-> ApiHttpError("Can't divide by 0", 400)]
           ELSE [kind |-> "returned",
                 value |-> NumDiv(GetField(req.f, "num1"),
                                  GetField(req.f, "num2")),
                 error |-> NoError]
    [] fn = "divideUnchecked" ->
         [kind |-> "returned",
          value |-> NumDiv(GetField(req.f, "num1"), GetField(req.f, "num2")),
          error |-> NoError]
    [] fn = "sayHi" ->
         [kind |-> "returned",
          value |-> IF GetField(req.f, "name") = Str("Eve")
                      THEN Str("Hi Eve") ELSE Str("Hi"),
          error |-> NoError]
    [] fn = "ping" ->
         [kind |-> "returned", value |-> Undefined, error |-> NoError]
    [] fn = "crash" ->
         [kind |-> "threw", value |-> Undefined, error |-> OtherError]
    [] OTHER ->
         [kind |-> "threw", value |-> Undefined,
          error |-> ApiHttpError("denied", DeclaredCode(fn))]

\* the handler bodies a method can be given
ServerFuncs(method) ==
  CASE method = "sayHi" -> {"sayHi"}
    [] method = "divide" -> {"divide", "divideUnchecked", "crash", "deny200",
                             "deny204", "deny404", "deny99"}
    [] method = "ping" -> {"ping"}

\* the request validator of a method: schema[methodName].req
ReqSchema(schema, method) == GetField(schema, method)

\* getUntypedServerFunc(schema, methodName, handler): validate the raw body
\* against the request validator, then await the handler on the accepted
\* value.  An async handler and a plain one settle alike under await.
getUntypedServerFunc(schema, method, handler, rawBody) ==
  LET parsed == SafeParse(ReqSchema(schema, method), rawBody) IN
  IF ~parsed.success
    THEN [kind |-> "invalid", value |-> Undefined, error |-> NoError,
          issues |-> parsed.error.issues, invoked |-> FALSE]
    ELSE LET r == RunHandler(handler[2], parsed.data) IN
         [kind |-> r.kind, value |-> r.value, error |-> r.error,
          issues |-> <<>>, invoked |-> TRUE]

\* the message zod gives an invalid_type issue
IssueMessage(issue) ==
  IF issue.received = "undefined" THEN "Required"
  ELSE IF issue.expected = "number" /\ issue.received = "string"
    THEN "Expected number, received string"
  ELSE IF issue.expected = "string" /\ issue.received = "number"
    THEN "Expected string, received number"
  ELSE "Invalid input"

RECURSIVE PathValue(_)
PathValue(path) ==
  IF path = <<>> THEN <<>> ELSE <<Str(Head(path))>> \o PathValue(Tail(path))

\* an issue as the object that is serialized
IssueValue(issue) ==
  Obj(<< <<"code", Str(issue.code)>>, <<"expected", Str(issue.expected)>>,
         <<"received", Str(issue.received)>>,
         <<"path", Arr(PathValue(issue.path))>>,
         <<"message", Str(IssueMessage(issue))>> >>)

RECURSIVE IssueValues(_)
IssueValues(issues) ==
  IF issues = <<>> THEN <<>>
  ELSE <<IssueValue(Head(issues))>> \o IssueValues(Tail(issues))

\* the serialized ordered issue list
IssueListText(issues) == Text(JSONstringify(Arr(IssueValues(issues))))

\* createHttpHandler(func): the outcome of func as {status, body}
createHttpHandler(r) ==
  CASE r.kind = "invalid" ->
         [status |-> 400, body |-> IssueListText(r.issues)]
    [] r.kind = "returned" -> [status |-> 200, body |-> r.value]
    [] r.kind = "threw" /\ r.error.name = "ApiHttpError" ->
         [status |-> r.error.code, body |-> Str(r.error.message)]
    [] OTHER -> [status |-> 500, body |-> Str("Internal server error")]

\* Koa's response: ctx.status = c asserts a status code (an integer from 100
\* to 999) and throws otherwise; 204, 205 and 304 carry no body; a body of
\* null or undefined turns the response into 204 No Content.
KoaStatusOk(c) == c \in 100..999
KoaEmptyStatus == {204, 205, 304}
KoaRespond(status, body) ==
  IF body = Undefined THEN
    [status |-> IF status \in KoaEmptyStatus THEN status ELSE 204,
     text |-> <<>>]
  ELSE IF status \in KoaEmptyStatus THEN [status |-> status, text |-> <<>>]
  ELSE [status |-> status, text |-> BodyText(body)]

\* what Koa answers when the route callback throws, and when no route
\* matches the request
KoaOnError == [text |-> <<TJunk("Internal Server Error")>>, status |-> 500]
KoaNotFound == [text |-> <<TJunk("Not Found")>>, status |-> 404]

\* JSON.stringify(value) as a text: undefined when value has no rendering
StringifyBody(v) ==
  LET r == SerializeJSONProperty(v) IN
  IF r.defined THEN Text(r.toks) ELSE Undefined

\* a route callback that sends the handler's return value as it is: a
\* string leaves as its own characters
RouteCallbackRawBody(resp) ==
  IF ~KoaStatusOk(resp.status) THEN KoaOnError
  ELSE KoaRespond(resp.status,
                  IF resp.status = 200 /\ resp.body.t # "string"
                    THEN StringifyBody(resp.body)
                    ELSE resp.body)

\* a route callback that leaves the status Koa starts a matched route with
\* once a body is set, 200
RouteCallbackNoStatus(resp) ==
  KoaRespond(200, IF resp.status = 200 THEN StringifyBody(resp.body)
                  ELSE resp.body)

\* a route callback that serializes every body, a message included
RouteCallbackStringifyAll(resp) ==
  IF ~KoaStatusOk(resp.status) THEN KoaOnError
  ELSE KoaRespond(resp.status,
                  IF resp.status = 200 THEN StringifyBody(resp.body)
                  ELSE IF resp.body.t = "string" THEN StringifyBody(resp.body)
                  ELSE resp.body)

\* the route callback of createKoaRoute, after httpHandler resolved to resp:
\*   ctx.status = resp.status;
\*   ctx.body = resp.status === 200 ? JSON.stringify(resp.body) : resp.body;
RouteCallback(resp) ==
  IF ~KoaStatusOk(resp.status) THEN KoaOnError
  ELSE KoaRespond(resp.status,
                  IF resp.status = 200 THEN StringifyBody(resp.body)
                  ELSE resp.body)

\* the router without routes
NoRoute == <<"none", "none">>
NoRoutes == [method \in MethodNames |-> NoRoute]

\* POST method with the parsed body `body` against the routes rts
Serve(rts, schema, method, body) ==
  IF rts[method] = NoRoute
    THEN [status |-> KoaNotFound.status, text |-> KoaNotFound.text,
          run |-> [kind |-> "unrouted", value |-> Undefined,
                   error |-> NoError, issues |-> <<>>, invoked |-> FALSE]]
    ELSE LET run == getUntypedServerFunc(schema, method, rts[method], body)
             out == RouteCallback(createHttpHandler(run))
         IN [status |-> out.status, text |-> out.text, run |-> run]

\* createKoaRoute(router, schema, methodName, handler): router.post(...)
createKoaRoute(rts, method, handler) == [rts EXCEPT ![method] = handler]

\* An object implementing the interface: its own enumerable properties and
\* the methods it inherits.  An object literal owns its methods; an
\* instance of a class finds them on the prototype.
ImplObject(kind, fns) ==
  LET methods == [i \in 1..Len(apiSchema) |->
                    <<apiSchema[i][1], <<"plain", fns[apiSchema[i][1]]>> >>]
  IN IF kind = "literal" THEN [own |-> methods, inherited |-> <<>>]
     ELSE [own |-> <<>>, inherited |-> methods]

\* for (const methodName of Object.keys(impl))
\*   createKoaRoute(router, schema, methodName, impl[methodName])
RECURSIVE createKoaRoutesLoop(_, _)
createKoaRoutesLoop(rts, keys) ==
  IF keys = <<>> THEN rts
  ELSE createKoaRoutesLoop(createKoaRoute(rts, Head(keys)[1], Head(keys)[2]),
                           Tail(keys))

createKoaRoutes(rts, impl) == createKoaRoutesLoop(rts, impl.own)

\* one createKoaRoute call per method, with async handlers of the same bodies
SeparateRoutes(fns) ==
  [method \in MethodNames |-> <<"async", fns[method]>>]

\* TypedHttpClient.call(methodName, params): the request body is the JSON
\* text of params, which koa-bodyparser parses again for the route
RequestBody(params) == JSONparse(JSONstringify(params)).val

\* a client that returns every body that parses as JSON, whatever the status
ClientOutcomeAnyBody(status, text) ==
  IF status = 200 \/ JSONparse(text).ok
    THEN [kind |-> "returned", value |-> JSONparse(text).val, message |-> <<>>]
    ELSE [kind |-> "failed", value |-> Undefined, message |-> text]

\* the outcome of call for a response: the parsed body on status 200,
\* otherwise an error whose message is the body text
ClientOutcome(status, text) ==
  IF status = 200
    THEN [kind |-> "returned", value |-> JSONparse(text).val, message |-> <<>>]
    ELSE [kind |-> "failed", value |-> Undefined, message |-> text]

\* the calls of the model: a method and its params
HttpCalls ==
  { <<"sayHi", Obj(<< <<"name", Str("Eve")>> >>)>>,
    <<"sayHi", Obj(<<>>)>>,
    <<"sayHi", Obj(<< <<"name", Num(5)>> >>)>>,
    <<"divide", Obj(<< <<"num1", Num(15)>>, <<"num2", Num(5)>> >>)>>,
    <<"divide", Obj(<< <<"num1", Num(15)>>, <<"num2", Num(0)>> >>)>>,
    <<"divide", Obj(<< <<"num1", Num(15)>>, <<"num2", Undefined>> >>)>>,
    <<"divide", Obj(<< <<"num1", Num(15)>>, <<"num2", Str("5")>> >>)>>,
    <<"divide", Obj(<<>>)>>,
    <<"ping", Obj(<<>>)>> }

\* the most handler promises the model keeps pending at once
MaxPending == 2

(***************************************************************************)
(* The state machine.                                                      *)
(***************************************************************************)
Init ==
  /\ handlers = [peer \in Peers |-> NoHandlers]
  /\ pending = [ok |-> 0, fail |-> 0]
  /\ latest = [peer \in Peers |-> NoHandlers]
  /\ lastOp = [op |-> "new"]
  /\ routes = NoRoutes
  /\ lastCall = [op |-> "new"]
  /\ biHandlers = [peer \in Peers |-> NoHandlers]
  /\ biPending = [ok |-> 0, fail |-> 0]
  /\ biLastOp = [op |-> "new"]

\* a setHandler that keeps the handler a type already has
SetHandlerKeepFirst(tbl, type, h) ==
  IF tbl[type] = "none" THEN [tbl EXCEPT ![type] = h] ELSE tbl

\* a setHandler that removes the entry a type already has
SetHandlerToggle(tbl, type, h) ==
  IF tbl[type] = "none" THEN [tbl EXCEPT ![type] = h]
  ELSE [tbl EXCEPT ![type] = "none"]

\* a setHandler that starts a new table holding the one handler
SetHandlerNewTable(tbl, type, h) ==
  [t \in TypeNames |-> IF t = type THEN h ELSE "none"]

\* setHandler(msgType, handler): this.handlers[msgType] = handler
SetHandlerTable(tbl, type, h) == [tbl EXCEPT ![type] = h]

SetHandler(peer, type, h) ==
  /\ handlers' = [handlers EXCEPT ![peer] = SetHandlerTable(@, type, h)]
  /\ latest' = [latest EXCEPT ![peer][type] = h]
  /\ lastOp' = [op |-> "setHandler", peer |-> peer, type |-> type, h |-> h,
                prev |-> handlers[peer][type], events |-> <<>>,
                threw |-> FALSE]
  /\ UNCHANGED <<pending, routes, lastCall, biHandlers, biPending, biLastOp>>

\* the host loop hands one frame to receiver.onMessage
Deliver(receiver, text, how, type, params) ==
  \E r \in {OnMessage(receiver, text, 0)} :
  /\ pending.ok + pending.fail + r.ok + r.fail <= MaxPending
  /\ pending' = [ok |-> pending.ok + r.ok, fail |-> pending.fail + r.fail]
  /\ lastOp' = [op |-> how, peer |-> receiver, type |-> type,
                params |-> params, text |-> text,
                events |-> r.events, threw |-> r.threw]
  /\ UNCHANGED <<handlers, latest, routes, lastCall, biHandlers, biPending,
                 biLastOp>>

\* receiver.onMessage(sender.serialize(type, params))
Send(receiver, type, params) ==
  Deliver(receiver, serialize(type, params), "send", type, params)

\* receiver.onMessage(text) for a text that came from elsewhere
OnRaw(receiver, text) == Deliver(receiver, text, "raw", "", Undefined)

\* a pending handler promise settles; a rejection runs the catch callback
Settle(outcome) ==
  /\ pending[outcome] > 0
  /\ pending' = [pending EXCEPT ![outcome] = @ - 1]
  /\ lastOp' = [op |-> "settle", outcome |-> outcome,
                events |-> IF outcome = "fail" THEN CatchCallback("HandlerError")
                           ELSE <<>>,
                threw |-> FALSE]
  /\ UNCHANGED <<handlers, latest, routes, lastCall, biHandlers, biPending,
                 biLastOp>>

Next ==
  \/ \E peer \in Peers, type \in TypeNames :
       \E h \in Registrable(peer, type) : SetHandler(peer, type, h)
  \/ \E receiver \in Peers, env \in Envelopes : Send(receiver, env[1], env[2])
  \/ \E receiver \in Peers, text \in RawTexts : OnRaw(receiver, text)
  \/ \E outcome \in {"ok", "fail"} : Settle(outcome)

Spec == Init /\ [][Next]_vars

(***************************************************************************)
(* The server and its client: routes are added to the router, one by one   *)
(* or from an implementation object, and the client calls methods.         *)
(***************************************************************************)
\* createKoaRoute(router, apiSchema, method, async handler)
CreateKoaRoute(method, fn) ==
  /\ lastCall.op # "createKoaRoutes"
  /\ routes[method] = NoRoute
  /\ routes' = createKoaRoute(routes, method, <<"async", fn>>)
  /\ lastCall' = [op |-> "createKoaRoute", method |-> method, fn |-> fn]
  /\ UNCHANGED <<handlers, pending, latest, lastOp, biHandlers, biPending,
                 biLastOp>>

\* createKoaRoutes(router, apiSchema, impl) on a fresh router
CreateKoaRoutes(kind, fns) ==
  /\ routes = NoRoutes
  /\ lastCall.op = "new"
  /\ routes' = createKoaRoutes(routes, ImplObject(kind, fns))
  /\ lastCall' = [op |-> "createKoaRoutes", kind |-> kind, fns |-> fns]
  /\ UNCHANGED <<handlers, pending, latest, lastOp, biHandlers, biPending,
                 biLastOp>>

\* client.call(method, params) against the server
Call(method, params) ==
  /\ lastCall.op # "new"
  /\ \E r \in {Serve(routes, apiSchema, method, RequestBody(params))} :
       lastCall' = [op |-> "call", method |-> method, params |-> params,
                    body |-> RequestBody(params), route |-> routes[method],
                    run |-> r.run, status |-> r.status, text |-> r.text,
                    outcome |-> ClientOutcome(r.status, r.text)]
  /\ UNCHANGED <<handlers, pending, latest, lastOp, routes, biHandlers,
                 biPending, biLastOp>>

HttpNext ==
  \/ \E method \in MethodNames :
       \E fn \in ServerFuncs(method) : CreateKoaRoute(method, fn)
  \/ \E kind \in {"literal", "instance"} :
       \E fns \in [MethodNames -> UNION {ServerFuncs(m) : m \in MethodNames}] :
         /\ \A m \in MethodNames : fns[m] \in ServerFuncs(m)
         /\ CreateKoaRoutes(kind, fns)
  \/ \E c \in HttpCalls : Call(c[1], c[2])

HttpSpec == Init /\ [][HttpNext]_vars

(***************************************************************************)
(* Peer and BiDirectional side by side: the same setHandler, onMessage and *)
(* serialize calls are made on both, and what each did is recorded.        *)
(***************************************************************************)
\* a call has been made on the Peer copy and not yet on the BiDirectional one
BiHalfDone == biLastOp.op \in {"sendPeer", "rawPeer"}

BiSetHandler(peer, type, h) ==
  /\ ~BiHalfDone
  /\ handlers' = [handlers EXCEPT ![peer] = SetHandlerTable(@, type, h)]
  /\ biHandlers' = [biHandlers EXCEPT ![peer] = BiSetHandlerTable(@, type, h)]
  /\ biLastOp' = [op |-> "setHandler", peer |-> peer, type |-> type,
                  events |-> <<>>, threw |-> FALSE, text |-> <<>>,
                  peerEvents |-> <<>>, peerThrew |-> FALSE, peerText |-> <<>>]
  /\ UNCHANGED <<pending, biPending, latest, lastOp, routes, lastCall>>

\* receiver.onMessage(peerText) on the Peer copy; text is what the
\* BiDirectional copy is handed next
BiDeliverPeer(receiver, type, text, peerText, how) ==
  \E r \in {OnMessage(receiver, peerText, 0)} :
  /\ ~BiHalfDone
  /\ pending.ok + pending.fail + r.ok + r.fail <= MaxPending
  /\ pending' = [ok |-> pending.ok + r.ok, fail |-> pending.fail + r.fail]
  /\ biLastOp' = [op |-> IF how = "send" THEN "sendPeer" ELSE "rawPeer",
                  peer |-> receiver, type |-> type,
                  events |-> <<>>, threw |-> FALSE, text |-> text,
                  peerEvents |-> r.events, peerThrew |-> r.threw,
                  peerText |-> peerText]
  /\ UNCHANGED <<handlers, biHandlers, biPending, latest, lastOp, routes,
                 lastCall>>

\* the same receiver.onMessage call on the BiDirectional copy
BiDeliver ==
  /\ BiHalfDone
  /\ \E b \in {BiOnMessage(biLastOp.peer, biLastOp.text, 0)} :
       /\ biPending' = [ok |-> biPending.ok + b.ok,
                        fail |-> biPending.fail + b.fail]
       /\ biLastOp' = [biLastOp EXCEPT
                         !.op = IF @ = "sendPeer" THEN "send" ELSE "raw",
                         !.events = b.events, !.threw = b.threw]
  /\ UNCHANGED <<handlers, biHandlers, pending, latest, lastOp, routes,
                 lastCall>>

\* the calls made on both: receiver.onMessage(sender.serialize(type,
\* params)), each copy serializing for itself, and receiver.onMessage(text)
\* on a text that came from elsewhere; <<how, type, text, peerText>>
BiFrames ==
  {<<"send", env[1], biSerialize(env[1], env[2]), serialize(env[1], env[2])>> :
     env \in Envelopes}
  \cup {<<"raw", "", text, text>> : text \in RawTexts}

\* a pending handler promise settles on both sides
BiSettle(outcome) ==
  /\ ~BiHalfDone
  /\ biPending[outcome] > 0
  /\ biPending' = [biPending EXCEPT ![outcome] = @ - 1]
  /\ pending' = [pending EXCEPT ![outcome] = IF @ > 0 THEN @ - 1 ELSE @]
  /\ biLastOp' = [op |-> "settle", peer |-> "", type |-> outcome,
                  events |-> IF outcome = "fail"
                               THEN BiCatchCallback("HandlerError") ELSE <<>>,
                  threw |-> FALSE, text |-> <<>>,
                  peerEvents |-> IF outcome = "fail" /\ pending[outcome] > 0
                                   THEN CatchCallback("HandlerError") ELSE <<>>,
                  peerThrew |-> FALSE, peerText |-> <<>>]
  /\ UNCHANGED <<handlers, biHandlers, latest, lastOp, routes, lastCall>>

BiNext ==
  \/ \E peer \in Peers, type \in TypeNames :
       \E h \in Registrable(peer, type) : BiSetHandler(peer, type, h)
  \/ \E receiver \in Peers, f \in BiFrames :
       BiDeliverPeer(receiver, f[2], f[3], f[4], f[1])
  \/ BiDeliver
  \/ \E outcome \in {"ok", "fail"} : BiSettle(outcome)

BiSpec == Init /\ [][BiNext]_vars

(***************************************************************************)
(* Vocabulary of the properties: what the last operation was handed and    *)
(* what it did.  Events of depth 0 are those of the call itself; deeper    *)
(* ones belong to calls a handler made.                                    *)
(***************************************************************************)
IsOnMessageOp == lastOp.op \in {"send", "raw"}

RECURSIVE CountWhere(_, _, _)
CountWhere(events, kind, d) ==
  IF events = <<>> THEN 0
  ELSE (IF Head(events).e = kind /\ Head(events).d = d THEN 1 ELSE 0)
       + CountWhere(Tail(events), kind, d)

CountTop(kind) == CountWhere(lastOp.events, kind, 0)

TopEvents(kind) ==
  {i \in 1..Len(lastOp.events) :
     lastOp.events[i].e = kind /\ lastOp.events[i].d = 0}

InvokeEvents == {i \in 1..Len(lastOp.events) : lastOp.events[i].e = "invoke"}

\* the frame as a receiver reads it
Frame == JSONparse(lastOp.text)
IsJson == Frame.ok
WellFormed == IsJson /\ SafeParse(genericMsgSchema, Frame.val).success
FrameType == GetField(Frame.val.f, "type").s
FrameParams == GetField(Frame.val.f, "params")

\* the receiver's table has an own entry for the frame's type
Registered == FrameType \in TypeNames /\ handlers[lastOp.peer][FrameType] # "none"
InSchema == HasKey(incomingSchema(lastOp.peer), FrameType)
Validator == GetField(incomingSchema(lastOp.peer), FrameType)

\* a value JSON can carry: no undefined, no non-finite number, at any depth
RECURSIVE JsonRepresentable(_)
JsonRepresentable(v) ==
  CASE v.t \in {"undefined", "nonfinite"} -> FALSE
    [] v.t = "object" ->
         \A i \in 1..Len(v.f) : JsonRepresentable(v.f[i][2])
    [] OTHER -> TRUE

\* deep equality of values: objects by their keys, whatever the key order
RECURSIVE DeepEqual(_, _)
DeepEqual(a, b) ==
  IF a.t # b.t THEN FALSE
  ELSE IF a.t = "object"
    THEN /\ KeysOf(a.f) = KeysOf(b.f)
         /\ \A k \in KeysOf(a.f) : DeepEqual(GetField(a.f, k), GetField(b.f, k))
    ELSE a = b

\* the declared fields of an object validator that a payload leaves missing
\* or gives a wrong type; a payload that is no object at all, or a scalar
\* of the wrong type, is one invalid value
InvalidFields(schema, v) ==
  IF schema.z = "object" /\ v.t = "object"
    THEN {i \in 1..Len(schema.shape) :
            GetField(v.f, schema.shape[i][1]).t # schema.shape[i][2].z}
    ELSE {0}

(***************************************************************************)
(* C1.  Every onMessage call has exactly one outcome: one onParseError,    *)
(* one onMissingHandler, or one invocation of one registered handler.      *)
(* Stated as claimed; it fails for a type such as "toString", which        *)
(* `in` finds in every handler table: the call then throws a TypeError     *)
(* and has none of the three outcomes.                                     *)
(***************************************************************************)
C1_ExactlyOneOutcome ==
  IsOnMessageOp =>
    CountTop("onParseError") + CountTop("onMissingHandler") + CountTop("invoke") = 1

(***************************************************************************)
(* C2.  Round trip: receiver.onMessage(sender.serialize(T, p)), with T in  *)
(* the sender's outgoing and the receiver's incoming schema, a handler     *)
(* registered for T and p JSON-representable and valid for T, invokes that *)
(* handler exactly once with a value equal to p and calls neither          *)
(* onParseError nor onMissingHandler.                                      *)
(***************************************************************************)
C2_Case ==
  /\ lastOp.op = "send"
  /\ HasKey(outgoingSchema(Other(lastOp.peer)), lastOp.type)
  /\ HasKey(incomingSchema(lastOp.peer), lastOp.type)
  /\ handlers[lastOp.peer][lastOp.type] # "none"
  /\ JsonRepresentable(lastOp.params)
  /\ SafeParse(GetField(incomingSchema(lastOp.peer), lastOp.type),
               lastOp.params).success

C3_NotJson ==
  (IsOnMessageOp /\ ~IsJson) =>
    /\ CountTop("onParseError") = 1
    /\ \A i \in TopEvents("onParseError") : lastOp.events[i].a = SyntaxError
    /\ CountTop("onMissingHandler") = 0
    /\ InvokeEvents = {}
    /\ ~lastOp.threw

C3_Witness ==
  /\ IsOnMessageOp /\ ~IsJson
  /\ \E type \in TypeNames : handlers[lastOp.peer][type] # "none"
  /\ CountTop("onParseError") = 1

(***************************************************************************)
(* C4.  A well-formed envelope whose type is in the incoming schema and    *)
(* has no registered handler: onMissingHandler(type) exactly once, no      *)
(* onParseError, no handler invoked.                                       *)
(***************************************************************************)
\* It fails on an endpoint whose schema names a type after a member of
\* Object.prototype: `type in this.handlers` finds the inherited member, so
\* the frame is validated and dispatched as if a handler were registered.
C4_Case == IsOnMessageOp /\ WellFormed /\ InSchema /\ ~Registered

C4_MissingHandler ==
  C4_Case =>
    /\ CountTop("onMissingHandler") = 1
    /\ \A i \in TopEvents("onMissingHandler") : lastOp.events[i].a = FrameType
    /\ CountTop("onParseError") = 0
    /\ InvokeEvents = {}
    /\ ~lastOp.threw

\* the test's frame: divide {num1: 10, num2: 5} on an endpoint without handlers
C4_Witness ==
  /\ C4_Case
  /\ FrameType = "divide" /\ FrameParams = DivOk
  /\ CountTop("onMissingHandler") = 1

(***************************************************************************)
(* C5.  A well-formed envelope whose type has a registered handler and     *)
(* whose params fail the incoming schema's validator for the type:         *)
(* onParseError exactly once with the validation error, one issue per      *)
(* invalid or missing field, no onMissingHandler, the handler not invoked. *)
(***************************************************************************)
C5_Case ==
  /\ IsOnMessageOp /\ WellFormed /\ Registered /\ InSchema
  /\ ~SafeParse(Validator, FrameParams).success

C5_PayloadInvalid ==
  C5_Case =>
    /\ CountTop("onParseError") = 1
    /\ \A i \in TopEvents("onParseError") :
         /\ lastOp.events[i].a.name = "ZodError"
         /\ Len(lastOp.events[i].a.issues)
              = Cardinality(InvalidFields(Validator, FrameParams))
    /\ CountTop("onMissingHandler") = 0
    /\ InvokeEvents = {}
    /\ ~lastOp.threw

\* both fields of divide missing: two issues
C5_Witness ==
  /\ C5_Case
  /\ FrameType = "divide" /\ FrameParams = Obj(<<>>)
  /\ \E i \in TopEvents("onParseError") : Len(lastOp.events[i].a.issues) = 2

(***************************************************************************)
(* C6.  On an endpoint on which setHandler was never called, a well-formed *)
(* envelope whose type is in the incoming schema and whose params fail the *)
(* type's validator (the test: divide with {}) is reported through         *)
(* onParseError with the validation error (2 issues in the test).  Stated  *)
(* as the test expects; the code reports onMissingHandler("divide")        *)
(* instead, because the handler lookup comes before the validation.        *)
(***************************************************************************)
C6_FreshPeerValidationError ==
  ( /\ IsOnMessageOp /\ latest[lastOp.peer] = NoHandlers
    /\ WellFormed /\ InSchema
    /\ ~SafeParse(Validator, FrameParams).success )
  => /\ CountTop("onParseError") = 1
     /\ \A i \in TopEvents("onParseError") :
          Len(lastOp.events[i].a.issues)
            = Cardinality(InvalidFields(Validator, FrameParams))

(***************************************************************************)
(* C7.  A dispatched handler whose promise fails later: the failure is     *)
(* only logged (console.warn); neither listener callback is called for it, *)
(* and the onMessage call that dispatched the handler returned normally.   *)
(***************************************************************************)
AsyncHandlers == {"hOk", "hFail", "hReply", "hNest"}

C7_FailureOnlyLogged ==
  /\ (lastOp.op = "settle" /\ lastOp.outcome = "fail") =>
       /\ Len(lastOp.events) = 1
       /\ \A i \in 1..Len(lastOp.events) : lastOp.events[i].e = "console.warn"
       /\ ~lastOp.threw
  /\ (IsOnMessageOp
      /\ \E i \in TopEvents("invoke") : lastOp.events[i].a.h \in AsyncHandlers) =>
       /\ ~lastOp.threw
       /\ CountTop("onParseError") = 0
       /\ CountTop("onMissingHandler") = 0

\* a rejection settles while another handler's promise is still pending
C7_Witness ==
  /\ lastOp.op = "settle" /\ lastOp.outcome = "fail"
  /\ lastOp.events # <<>>
  /\ pending.ok > 0

(***************************************************************************)
(* C8.  Latest registration wins: setHandler(T, h) leaves h as the entry   *)
(* for T, and every handler invoked for a message of type T is the one the *)
(* most recent setHandler(T, ...) of that endpoint gave.                   *)
(***************************************************************************)
C8_LatestWins ==
  /\ lastOp.op = "setHandler" =>
       handlers[lastOp.peer][lastOp.type] = lastOp.h
  /\ IsOnMessageOp =>
       \A i \in InvokeEvents :
         lastOp.events[i].a.h
           = latest[lastOp.events[i].peer][lastOp.events[i].a.type]
  /\ \A peer \in Peers, type \in TypeNames :
       handlers[peer][type] = latest[peer][type]

\* a setHandler that replaced another handler of the same type
C8_Witness ==
  /\ lastOp.op = "setHandler"
  /\ lastOp.prev \notin {"none", lastOp.h}
  /\ handlers[lastOp.peer][lastOp.type] = lastOp.h

(***************************************************************************)
(* C9.  Routing order.  EndOf(i) is the event that ends the call entered   *)
(* at event i (its return, or the exception leaving it).                   *)
(***************************************************************************)
Enters == {i \in 1..Len(lastOp.events) : lastOp.events[i].e = "enter"}

EndOf(i) ==
  CHOOSE j \in (i + 1)..Len(lastOp.events) :
    /\ lastOp.events[j].d = lastOp.events[i].d
    /\ lastOp.events[j].e \in {"return", "throw"}
    /\ \A k \in (i + 1)..(j - 1) :
         ~(lastOp.events[k].d = lastOp.events[i].d
           /\ lastOp.events[k].e \in {"return", "throw"})

\* the call that made the invocation at event k
EnterOf(k) ==
  CHOOSE i \in Enters :
    /\ i < k /\ lastOp.events[i].d = lastOp.events[k].d
    /\ \A m \in Enters : (m < k /\ lastOp.events[m].d = lastOp.events[k].d) => m <= i

\* As claimed: routing of one message on an endpoint runs to completion
\* before routing of the next message on that endpoint begins, also when a
\* handler calls onMessage on its own endpoint.  It fails for such a
\* handler: the nested frame is routed inside the outer call.
C9_RunsToCompletion ==
  IsOnMessageOp =>
    \A i, m \in Enters :
      (i < m /\ lastOp.events[m].peer = lastOp.events[i].peer) => EndOf(i) < m

\* As amended: a frame handed to onMessage is routed synchronously, its
\* handler invoked before onMessage returns, and handlers are invoked in
\* the order the onMessage calls began; a call that begins inside another
\* one was made by the outer call's handler, after that handler was
\* invoked, and it ends before the outer call does.
C9_ArrivalOrder ==
  IsOnMessageOp =>
    /\ lastOp.events[1].e = "enter" /\ lastOp.events[1].d = 0
    /\ EndOf(1) = Len(lastOp.events)
    /\ ( /\ WellFormed /\ Registered /\ InSchema
         /\ SafeParse(Validator, FrameParams).success )
       => \E k \in TopEvents("invoke") : 1 < k /\ k < EndOf(1)
    /\ \A k \in InvokeEvents : EnterOf(k) < k /\ k < EndOf(EnterOf(k))
    /\ \A k1, k2 \in InvokeEvents : k1 < k2 => EnterOf(k1) < EnterOf(k2)
    /\ \A i, m \in Enters :
         (i < m /\ m < EndOf(i)) =>
           /\ lastOp.events[m].d = lastOp.events[i].d + 1
           /\ EndOf(m) < EndOf(i)
           /\ \E k \in InvokeEvents :
                /\ i < k /\ k < m
                /\ lastOp.events[k].d = lastOp.events[i].d
                /\ lastOp.events[k].peer = lastOp.events[i].peer

\* a handler called onMessage on its own endpoint and both frames were
\* dispatched
C9_Witness ==
  /\ IsOnMessageOp
  /\ \E i, m \in Enters :
       /\ i < m /\ m < EndOf(i)
       /\ lastOp.events[m].peer = lastOp.events[i].peer
       /\ \E k1, k2 \in InvokeEvents :
            /\ EnterOf(k1) = i /\ EnterOf(k2) = m

(***************************************************************************)
(* C10.  serialize(type, params) returns the JSON text of an envelope,     *)
(* validates nothing, and a receiver reads the text as a well-formed       *)
(* envelope.                                                               *)
(***************************************************************************)
\* As claimed: exactly two top-level fields, type and params, for every
\* params value, an omitted argument included.  It fails for the omitted
\* argument: JSON.stringify drops a property whose value is undefined.
C10_ExactlyTwoFields ==
  lastOp.op = "send" =>
    /\ IsJson /\ Frame.val.t = "object"
    /\ KeysOf(Frame.val.f) = {"type", "params"}

\* As amended: two top-level fields, type and params, when params is given
\* (a non-finite number is sent as null); the one field type when params is
\* omitted or undefined.  In both cases nothing is validated and the
\* receiver reads a well-formed envelope of that type.
C10_Envelope ==
  lastOp.op = "send" =>
    /\ IsJson /\ Frame.val.t = "object"
    /\ KeysOf(Frame.val.f)
         = (IF lastOp.params = Undefined THEN {"type"} ELSE {"type", "params"})
    /\ Len(Frame.val.f) = Cardinality(KeysOf(Frame.val.f))
    /\ WellFormed
    /\ FrameType = lastOp.type
    /\ FrameParams
         = (IF lastOp.params = NonFinite THEN Null ELSE lastOp.params)
    /\ \A i \in TopEvents("onParseError") :
         /\ lastOp.events[i].a.name = "ZodError"
         /\ InSchema /\ lastOp.events[i].a.issues = ZodIssues(Validator, FrameParams)

\* a payload the sender's outgoing schema rejects, here the omitted
\* argument for divide, was serialized all the same
C10_Witness ==
  /\ lastOp.op = "send"
  /\ lastOp.type = "divide" /\ lastOp.params = Undefined
  /\ HasKey(outgoingSchema(Other(lastOp.peer)), "divide")
  /\ ~SafeParse(GetField(outgoingSchema(Other(lastOp.peer)), "divide"),
                lastOp.params).success
  /\ KeysOf(Frame.val.f) = {"type"}
  /\ WellFormed

(***************************************************************************)
(* C17.  The handler lookup runs before the payload validation: a          *)
(* well-formed envelope whose type has no registered handler and whose     *)
(* params fail the type's validator is reported by onMissingHandler(type)  *)
(* alone, never by onParseError.                                           *)
(***************************************************************************)
\* It fails for the same reason as C4: on an endpoint whose schema names a
\* type "toString" the lookup finds the inherited member, the payload is
\* validated and the failure goes to onParseError.
C17_Case ==
  /\ IsOnMessageOp /\ WellFormed /\ ~Registered /\ InSchema
  /\ ~SafeParse(Validator, FrameParams).success

C17_LookupBeforeValidation ==
  C17_Case =>
    /\ CountTop("onMissingHandler") = 1
    /\ \A i \in TopEvents("onMissingHandler") : lastOp.events[i].a = FrameType
    /\ CountTop("onParseError") = 0

(***************************************************************************)
(* C18.  A well-formed envelope whose type was never given to setHandler   *)
(* on the endpoint, whatever the string: onMissingHandler(type), and       *)
(* nothing validated or invoked.                                           *)
(***************************************************************************)
\* It fails for "toString": `type in this.handlers` is true for the members
\* every object inherits.
C18_Case ==
  /\ IsOnMessageOp /\ WellFormed
  /\ FrameType \in TypeNames /\ latest[lastOp.peer][FrameType] = "none"

C18_NeverRegisteredIsMissing ==
  C18_Case =>
    /\ CountTop("onMissingHandler") = 1
    /\ \A i \in TopEvents("onMissingHandler") : lastOp.events[i].a = FrameType
    /\ CountTop("onParseError") = 0
    /\ InvokeEvents = {}
    /\ ~lastOp.threw

(***************************************************************************)
(* C19.  Handler and validator are consistent: every type with a           *)
(* registered handler has a validator in the incoming schema, and whenever *)
(* routing finds a handler for a frame's type the validation step finds a  *)
(* validator for it.                                                       *)
(***************************************************************************)
\* It fails twice over: setHandler accepts a type the schema lacks, and the
\* lookup finds a handler for "toString" where the schema has no validator.
C19_HandlerHasValidator ==
  /\ \A peer \in Peers, type \in TypeNames :
       handlers[peer][type] # "none" => HasKey(incomingSchema(peer), type)
  /\ (IsOnMessageOp /\ WellFormed /\ InHandlers(handlers[lastOp.peer], FrameType))
       => SchemaMember(lastOp.peer, FrameType).kind = "validator"

(***************************************************************************)
(* C20.  A text that is JSON but no envelope (not an object, type missing  *)
(* or no string): onParseError exactly once with the shape error, then     *)
(* onMessage returns; no lookup, no onMissingHandler, no handler invoked,  *)
(* whatever handlers are registered.                                       *)
(***************************************************************************)
C20_Case == IsOnMessageOp /\ IsJson /\ ~WellFormed

C20_ShapeInvalid ==
  C20_Case =>
    /\ Len(lastOp.events) = 3
    /\ lastOp.events[1].e = "enter" /\ lastOp.events[3].e = "return"
    /\ lastOp.events[2].e = "onParseError"
    /\ lastOp.events[2].a.name = "ZodError"
    /\ lastOp.events[2].a.issues = ZodIssues(genericMsgSchema, Frame.val)
    /\ lastOp.events[2].a.issues # <<>>
    /\ ~lastOp.threw

\* an envelope without a type arrived at an endpoint that has handlers
C20_Witness ==
  /\ C20_Case
  /\ Frame.val.t = "object" /\ ~HasKey(Frame.val.f, "type")
  /\ \E type \in TypeNames : handlers[lastOp.peer][type] # "none"
  /\ CountTop("onParseError") = 1

(***************************************************************************)
(* Vocabulary of the request/response properties: the last client call.    *)
(***************************************************************************)
IsCall == lastCall.op = "call"
\* the request body was accepted and the handler completed successfully
CallSucceeded == IsCall /\ lastCall.run.kind = "returned"
\* the request body was rejected by the method's request validator
CallRejected == IsCall /\ lastCall.run.kind = "invalid"
\* the handler failed
CallThrew == IsCall /\ lastCall.run.kind = "threw"

\* C11 (as stated): for every method and every request body accepted by the
\* method's request validator whose handler completes successfully, the
\* response has status 200, its body is the JSON serialization of exactly
\* the handler's return value, and the client's call returns that value.
C11_SuccessExact ==
  CallSucceeded =>
    /\ lastCall.status = 200
    /\ lastCall.text = JSONstringify(lastCall.run.value)
    /\ lastCall.outcome.kind = "returned"
    /\ lastCall.outcome.value = lastCall.run.value

\* C11 (amended): for every method and every accepted request body whose
\* handler completes successfully with a return value that JSON represents
\* (JSON.parse(JSON.stringify(v)) reproduces v), the response has status
\* 200, its body is the JSON serialization of exactly that value, and the
\* client's call returns that value.
C11_SuccessRepresentable ==
  (CallSucceeded /\ JsonRepresentable(lastCall.run.value)) =>
    /\ lastCall.status = 200
    /\ lastCall.text = JSONstringify(lastCall.run.value)
    /\ lastCall.outcome.kind = "returned"
    /\ DeepEqual(lastCall.outcome.value, lastCall.run.value)

C11_Witness ==
  /\ CallSucceeded
  /\ lastCall.method = "sayHi"
  /\ lastCall.run.value = Str("Hi Eve")
  /\ lastCall.status = 200
  /\ lastCall.outcome.value = Str("Hi Eve")

\* C12: for every method and every request body rejected by the method's
\* request validator, the response has status 400, its body is the
\* serialized ordered issue list the validator produced, and the method's
\* handler is not invoked for that request.
C12_ValidationFailure ==
  CallRejected =>
    /\ lastCall.status = 400
    /\ lastCall.text =
         JSONstringify(Arr(IssueValues(
           ZodIssues(ReqSchema(apiSchema, lastCall.method), lastCall.body))))
    /\ ZodIssues(ReqSchema(apiSchema, lastCall.method), lastCall.body) # <<>>
    /\ ~lastCall.run.invoked

\* the 'schema error' test: divide called with {} is answered the two
\* "Required" issues, num1 before num2
C12_Witness ==
  /\ CallRejected
  /\ lastCall.method = "divide" /\ lastCall.params = Obj(<<>>)
  /\ lastCall.status = 400
  /\ lastCall.text =
       JSONstringify(Arr(<<
         Obj(<< <<"code", Str("invalid_type")>>, <<"expected", Str("number")>>,
                <<"received", Str("undefined")>>,
                <<"path", Arr(<<Str("num1")>>)>>,
                <<"message", Str("Required")>> >>),
         Obj(<< <<"code", Str("invalid_type")>>, <<"expected", Str("number")>>,
                <<"received", Str("undefined")>>,
                <<"path", Arr(<<Str("num2")>>)>>,
                <<"message", Str("Required")>> >>) >>))
  /\ ~lastCall.run.invoked

\* the handler failed with an ApiHttpError
CallDeclaredError == CallThrew /\ lastCall.run.error.name = "ApiHttpError"

\* C13 (as stated): for every handler failure that is an ApiError with
\* declared status code c and message m, for every value of c, the response
\* has status c, its body is m as plain text, not JSON-wrapped, and the
\* client's call fails with an error whose message is exactly m.
C13_DeclaredErrorAnyCode ==
  CallDeclaredError =>
    /\ lastCall.status = lastCall.run.error.code
    /\ lastCall.text = <<TJunk(lastCall.run.error.message)>>
    /\ lastCall.outcome.kind = "failed"
    /\ lastCall.outcome.message = <<TJunk(lastCall.run.error.message)>>

\* C13 (amended): the same for every declared code c that is an HTTP error
\* status (an integer from 400 to 599)
C13_DeclaredError ==
  (CallDeclaredError /\ lastCall.run.error.code \in 400..599) =>
    /\ lastCall.status = lastCall.run.error.code
    /\ lastCall.text = <<TJunk(lastCall.run.error.message)>>
    /\ lastCall.outcome.kind = "failed"
    /\ lastCall.outcome.message = <<TJunk(lastCall.run.error.message)>>

\* the 'divide error' test: 15 / 0 fails with "Can't divide by 0"
C13_Witness ==
  /\ CallDeclaredError
  /\ lastCall.method = "divide" /\ lastCall.route[2] = "divide"
  /\ lastCall.status = 400
  /\ lastCall.text = <<TJunk("Can't divide by 0")>>
  /\ lastCall.outcome.kind = "failed"

\* the request reached a route
CallRouted == IsCall /\ lastCall.run.kind # "unrouted"

\* C14: whenever a handler fails with anything other than an ApiError the
\* response has status 500, and every request ends in one of the statuses
\* 200, 400 (validation), the declared ApiError code, or 500.
C14_StatusSet ==
  /\ (CallThrew /\ lastCall.run.error.name # "ApiHttpError") =>
       lastCall.status = 500
  /\ CallRouted =>
       lastCall.status \in
         {200, 400, 500} \cup
           (IF CallDeclaredError THEN {lastCall.run.error.code} ELSE {})

\* C15: for every response, call returns the JSON-parsed body exactly when
\* the status is 200, and for every other status it fails with an error
\* whose message is exactly the raw response body text: the serialized
\* issue list for a 400 validation failure, the plain message for an
\* ApiError.
C15_ClientMapping ==
  IsCall =>
    /\ (lastCall.outcome.kind = "returned") <=> (lastCall.status = 200)
    /\ lastCall.status = 200 =>
         lastCall.outcome.value = JSONparse(lastCall.text).val
    /\ lastCall.status # 200 =>
         /\ lastCall.outcome.kind = "failed"
         /\ lastCall.outcome.message = lastCall.text
    /\ CallRejected =>
         lastCall.outcome.message =
           IssueListText(ZodIssues(ReqSchema(apiSchema, lastCall.method),
                                   lastCall.body)).toks
    /\ (CallDeclaredError /\ lastCall.run.error.code \in 400..599) =>
         lastCall.outcome.message = <<TJunk(lastCall.run.error.message)>>

\* sayHi called without a name fails with the issue list as its message
C15_Witness ==
  /\ CallRejected
  /\ lastCall.method = "sayHi"
  /\ lastCall.status = 400
  /\ lastCall.outcome.kind = "failed"
  /\ lastCall.outcome.message = lastCall.text
  /\ JSONparse(lastCall.text).ok

\* status and body text of the answer a router gives a call
Answer(rts, c) ==
  LET r == Serve(rts, apiSchema, c[1], RequestBody(c[2])) IN
  <<r.status, r.text>>

\* C16: a server whose routes are added by createKoaRoutes from an object
\* implementing every schema method (plain method bodies) answers every
\* request with the same status and body as a server whose routes are
\* added by one createKoaRoute call per method with async handlers
\* computing the same results.
C16_SameAnswers ==
  lastCall.op = "createKoaRoutes" =>
    \A c \in HttpCalls :
      Answer(routes, c) = Answer(SeparateRoutes(lastCall.fns), c)

(***************************************************************************)
(* C21.  Handler execution is never awaited by the router: while a handler *)
(* dispatched earlier is still pending, a later message is routed and its  *)
(* handler dispatched, and a handler's completion or failure changes the   *)
(* outcome of routing no message.                                          *)
(***************************************************************************)
\* the frames the model hands to onMessage
AllFrames == RawTexts \cup {serialize(env[1], env[2]) : env \in Envelopes}

\* the last operation routed a frame the receiver has a handler and a
\* validator for, with a payload the validator accepts
C21_Routable ==
  /\ IsOnMessageOp /\ WellFormed /\ Registered /\ InSchema
  /\ SafeParse(Validator, FrameParams).success

C21_Dispatched ==
  /\ CountTop("invoke") = 1
  /\ \A i \in TopEvents("invoke") :
       lastOp.events[i].a.h = handlers[lastOp.peer][FrameType]
  /\ CountTop("onParseError") = 0
  /\ CountTop("onMissingHandler") = 0

\* the promises the last operation left pending: those of the handlers it
\* invoked that suspend (hOk, hFail), and those rejected by an exception of
\* a nested onMessage call
DispatchedPending ==
  Cardinality({i \in InvokeEvents : lastOp.events[i].a.h \in {"hOk", "hFail"}})
  + Cardinality({i \in 1..Len(lastOp.events) :
                   lastOp.events[i].e = "throw" /\ lastOp.events[i].d > 0})

\* the promises of handlers dispatched by earlier operations, still pending
EarlierPending == pending.ok + pending.fail - DispatchedPending

C21_NotAwaited ==
  /\ [](/\ (C21_Routable /\ EarlierPending > 0) => C21_Dispatched
        /\ (lastOp.op = "settle") =>
             \A i \in 1..Len(lastOp.events) :
               lastOp.events[i].e = "console.warn")
  /\ [][(lastOp'.op = "settle") => handlers' = handlers]_vars

\* sayHi is dispatched on peer1 while two handlers dispatched earlier on
\* peer1 (the only endpoint with handlers that stay pending) are pending
C21_Witness ==
  /\ C21_Routable /\ C21_Dispatched
  /\ lastOp.peer = "peer1" /\ FrameType = "sayHi"
  /\ handlers["peer2"] = NoHandlers /\ handlers["peer3"] = NoHandlers
  /\ handlers["peer1"]["divide"] = "none"
  /\ EarlierPending > 0

C23_Case ==
  /\ C2_Case
  /\ lastOp.peer = "peer1"
  /\ handlers["peer1"][lastOp.type] = "hReply"

\* the reply: its type and its value
C23_Reply == ReplyOf(lastOp.type, FrameParams)

\* peer2 has a handler for the reply type and the reply is one its
\* validator accepts
C23_ReplyRoutable ==
  /\ handlers["peer2"][C23_Reply[1]] # "none"
  /\ HasKey(incomingSchema("peer2"), C23_Reply[1])
  /\ JsonRepresentable(C23_Reply[2])
  /\ SafeParse(GetField(incomingSchema("peer2"), C23_Reply[1]),
               C23_Reply[2]).success

C23_ChainInsideCall ==
  C23_Case =>
    /\ ~lastOp.threw
    /\ lastOp.events[Len(lastOp.events)].e = "return"
    /\ lastOp.events[Len(lastOp.events)].d = 0
    /\ \E m \in Enters :
         /\ lastOp.events[m].peer = "peer2" /\ lastOp.events[m].d = 1
         /\ 1 < m /\ EndOf(m) < Len(lastOp.events)
    /\ C23_ReplyRoutable =>
         \E k \in InvokeEvents :
           /\ k < Len(lastOp.events)
           /\ lastOp.events[k].peer = "peer2" /\ lastOp.events[k].d = 1
           /\ lastOp.events[k].a.type = C23_Reply[1]
           /\ lastOp.events[k].a.h = handlers["peer2"][C23_Reply[1]]
           /\ lastOp.events[k].a.data = C23_Reply[2]

\* the p2p test: divide {num1: 10, num2: 5} on peer1, divideResult 2 on peer2
C23_Witness ==
  /\ C23_Case /\ C23_ReplyRoutable
  /\ lastOp.type = "divide"
  /\ \E k \in InvokeEvents :
       /\ lastOp.events[k].peer = "peer2"
       /\ lastOp.events[k].a.type = "divideResult"
       /\ lastOp.events[k].a.data = Num(2)
  /\ ~lastOp.threw

(***************************************************************************)
(* C24.  Frame conditions: onMessage and serialize change no handler table *)
(* (schemas and listener are fixed at construction); setHandler(T, h)      *)
(* changes only the entry for T of its endpoint and calls no listener      *)
(* callback and no handler.                                                *)
(***************************************************************************)
C24_Frame ==
  /\ [](lastOp.op = "setHandler" =>
          /\ lastOp.events = <<>> /\ ~lastOp.threw
          /\ handlers[lastOp.peer][lastOp.type] = lastOp.h)
  /\ [][/\ (lastOp'.op \in {"send", "raw"}) => handlers' = handlers
        /\ (lastOp'.op = "setHandler") =>
             /\ pending' = pending
             /\ \A peer \in Peers, type \in TypeNames :
                  (peer # lastOp'.peer \/ type # lastOp'.type) =>
                    handlers'[peer][type] = handlers[peer][type]]_vars

\* setHandler on an endpoint whose table holds a handler of another type
C24_Witness ==
  /\ lastOp.op = "setHandler"
  /\ \E type \in TypeNames :
       type # lastOp.type /\ handlers[lastOp.peer][type] # "none"
  /\ handlers[lastOp.peer][lastOp.type] = lastOp.h
  /\ lastOp.events = <<>>

(***************************************************************************)
(* C25.  The set of types with a registered handler never shrinks: it is   *)
(* empty at construction, no operation removes an entry, and once          *)
(* setHandler(T, ...) was called on an endpoint no well-formed envelope of *)
(* type T on that endpoint is reported through onMissingHandler.           *)
(***************************************************************************)
C25_NeverShrinks ==
  /\ [](/\ lastOp.op = "new" =>
             \A peer \in Peers, type \in TypeNames :
               handlers[peer][type] = "none"
        /\ \A peer \in Peers, type \in TypeNames :
             latest[peer][type] # "none" => handlers[peer][type] # "none"
        /\ IsOnMessageOp =>
             \A i \in 1..Len(lastOp.events) :
               lastOp.events[i].e = "onMissingHandler" =>
                 \/ lastOp.events[i].a \notin TypeNames
                 \/ latest[lastOp.events[i].peer][lastOp.events[i].a] = "none")
  /\ [][\A peer \in Peers, type \in TypeNames :
          handlers[peer][type] # "none" => handlers'[peer][type] # "none"]_vars

\* a reply reaches peer2 after setHandler('divideResult', ...) was called
\* there: it is dispatched, not reported missing
C25_Witness ==
  /\ IsOnMessageOp /\ WellFormed
  /\ lastOp.peer = "peer2" /\ FrameType = "divideResult"
  /\ latest["peer2"]["divideResult"] # "none"
  /\ CountTop("onMissingHandler") = 0
  /\ CountTop("invoke") + CountTop("onParseError") = 1

(***************************************************************************)
(* C26.  Endpoints are isolated: each Peer has its own handler table.      *)
(* setHandler on one endpoint changes no other endpoint's table, onMessage *)
(* changes none, and the outcome an endpoint produces for a well-formed    *)
(* envelope (onMissingHandler, or which handler) is decided by its own     *)
(* table alone, whatever the other endpoints registered.                   *)
(***************************************************************************)
C26_Isolated ==
  /\ [](( /\ IsOnMessageOp /\ WellFormed /\ FrameType \in TypeNames ) =>
          IF handlers[lastOp.peer][FrameType] # "none"
            THEN /\ CountTop("onMissingHandler") = 0
                 /\ \A i \in TopEvents("invoke") :
                      /\ lastOp.events[i].peer = lastOp.peer
                      /\ lastOp.events[i].a.h = handlers[lastOp.peer][FrameType]
            ELSE /\ CountTop("invoke") = 0
                 /\ CountTop("onMissingHandler")
                      = IF FrameType \in ObjectPrototypeKeys THEN 0 ELSE 1)
  /\ [][/\ (lastOp'.op = "setHandler") =>
             \A q \in Peers \ {lastOp'.peer} : handlers'[q] = handlers[q]
        /\ (lastOp'.op \in {"send", "raw", "settle"}) =>
             handlers' = handlers]_vars

\* sayHi reaches peer2, which has no handler for it, while peer1 has one:
\* peer2 reports the missing handler
C26_Witness ==
  /\ IsOnMessageOp /\ WellFormed
  /\ lastOp.peer = "peer2" /\ FrameType = "sayHi"
  /\ handlers["peer1"]["sayHi"] # "none"
  /\ handlers["peer2"]["sayHi"] = "none"
  /\ CountTop("onMissingHandler") = 1
  /\ CountTop("invoke") = 0

(***************************************************************************)
(* C27.  Peer and BiDirectional are behaviourally equivalent: on the same  *)
(* schemas and the same sequence of setHandler, onMessage and serialize    *)
(* calls they make the same listener calls with the same arguments, invoke *)
(* the same handlers with the same values in the same order, and return    *)
(* the same serialized texts.                                              *)
(***************************************************************************)
C27_Equivalent ==
  /\ biHandlers = handlers
  /\ ~BiHalfDone =>
       /\ biPending = pending
       /\ biLastOp.op # "new" =>
            /\ biLastOp.events = biLastOp.peerEvents
            /\ biLastOp.threw = biLastOp.peerThrew
            /\ biLastOp.text = biLastOp.peerText

\* the 'bidirectional test': divide on peer1 is answered by divideResult
\* on peer2, on both copies
C27_Witness ==
  /\ biLastOp.op = "send" /\ biLastOp.peer = "peer1"
  /\ biLastOp.type = "divide"
  /\ \E i \in 1..Len(biLastOp.events) :
       /\ biLastOp.events[i].e = "invoke"
       /\ biLastOp.events[i].peer = "peer2"
       /\ biLastOp.events[i].a.data = Num(2)
  /\ biLastOp.events = biLastOp.peerEvents
  /\ biLastOp.text = biLastOp.peerText /\ biLastOp.text # <<>>
====
